---- MODULE Spec2Model ----
(***************************************************************************)
(* A model of angler's configuration backbone: the duration grammar        *)
(* (src/utils/time.rs), the settings model with its builder and merge      *)
(* (src/ctx/config.rs) and the once-only resolution of the process-wide    *)
(* configuration (src/ctx/appenv.rs).                                      *)
(*                                                                         *)
(* Text is a sequence of symbols.  A symbol is a one-character string, or  *)
(* a word such as "cluster.authKey" that abbreviates a run of ordinary     *)
(* characters (no whitespace, separator, bracket, digit-only or '#'        *)
(* prefix) which the code only ever compares as a whole.                   *)
(***************************************************************************)
EXTENDS Integers, Sequences, FiniteSets, TLC

VARIABLES
    \* SpecTime: the two deserializers
    input,          \* the &str handed to them
    dur_result,     \* what input.to_duration() returned
    seq_result,     \* what input.to_duration_sequence() returned
    \* SpecSeq: one DurationSequence
    duration_sequence, \* the object, once from_vec has built it
    sequence_call,  \* the last call on it, its arguments and its outcome
    \* SpecMerge: one Configuration that others are merged into
    target,         \* the Configuration merge is called on
    merge_initial,  \* target before the first merge
    merge_before,   \* target before the last merge
    merge_sources,  \* the sources merged so far, in order
    \* SpecEnv: the process-wide AppEnvironment
    dev_flag,       \* whether --dev was given
    conf_files,     \* the content of the two configuration files, or Missing
    angler_cfg,     \* the ANGLER_CFG variable, or NotPresent
    once,           \* the state of APP_ENV's Once
    cell,           \* the value slot of APP_ENV
    pc,             \* where each thread is in app_env()
    local,          \* the Configuration a thread is building in the closure
    obtained,       \* the values each thread's calls returned, in order
    init_runs,      \* how often the initialization body was entered
    completions,    \* how often it ran to its end
    \* SpecDecode: the two properties decoders
    record_list,    \* the records of a properties text, in order
    file_map,       \* what properties_file_content_to_map made of them
    semicolon_map,  \* what properties_separate_by_semicolon_to_map made of them
    \* SpecFromMap: Configuration::from_map
    settings_map,   \* the HashMap handed to from_map
    from_map_result, \* what from_map returned for it
    map_before,     \* the map before the last insertion of a key
    result_before   \* what from_map returned for map_before

timeVars == <<input, dur_result, seq_result>>
seqVars == <<duration_sequence, sequence_call>>
mergeVars == <<target, merge_initial, merge_before, merge_sources>>
envVars == <<dev_flag, conf_files, angler_cfg, once, cell, pc, local, obtained,
             init_runs, completions>>
decodeVars == <<record_list, file_map, semicolon_map>>
mapVars == <<settings_map, from_map_result, map_before, result_before>>
vars == <<timeVars, seqVars, mergeVars, envVars, decodeVars, mapVars>>
\* what the actions of one part leave alone
notSeqVars == <<timeVars, mergeVars, envVars, decodeVars, mapVars>>
notEnvVars == <<timeVars, seqVars, mergeVars, decodeVars, mapVars>>
notDecodeVars == <<timeVars, seqVars, mergeVars, envVars, mapVars>>
notMapVars == <<timeVars, seqVars, mergeVars, envVars, decodeVars>>

----------------------------------------------------------------------------
(* Bounds of the model *)

\* counts 0..MaxCount are formatted and parsed back (168h = 7d = 1w needs 168)
MaxCount == 170
\* every text over SmallAlphabet up to this length is an input
MaxLen == 3
\* bracketed / unbracketed lists of up to this many pieces are inputs
MaxTokens == 2
\* a DurationSequence grows to at most this many elements
MaxSeqLen == 3
\* at most this many sources are merged into one target
MaxMerges == 2
\* the threads that ask for the AppEnvironment
NumThreads == 2
\* the calls of app_env() one thread sees return
MaxCalls == 2
\* every record over RecordAlphabet up to this length is decoded on its own
MaxRecordLen == 3
\* lists of up to this many sample records are decoded
MaxRecords == 3
\* at most this many unrecognized keys are added to a map
MaxUnrecognized == 2

----------------------------------------------------------------------------
(* Characters and text *)

AsciiDigits == <<"0", "1", "2", "3", "4", "5", "6", "7", "8", "9">>

IsAsciiDigit(c) == \E i \in 1..10 : AsciiDigits[i] = c

\* A decimal digit outside ASCII (ARABIC-INDIC DIGIT THREE), one character.
ArabicIndicThree == "U+0663"

\* Rust's regex \d is Unicode-aware: any character of class Nd.
IsRegexDigit(c) == IsAsciiDigit(c) \/ c = ArabicIndicThree

\* char::is_whitespace, as used by str::trim
IsWhitespace(c) == c \in {" ", "\t", "\n", "\r"}

DigitValue(c) == CHOOSE i \in 0..9 : AsciiDigits[i + 1] = c

\* The decimal digits of a natural number (what formatting an integer writes).
RECURSIVE ToDigits(_)
ToDigits(n) ==
    IF n < 10 THEN <<AsciiDigits[n + 1]>>
    ELSE ToDigits(n \div 10) \o <<AsciiDigits[(n % 10) + 1]>>

\* The value of a run of ASCII digits, accumulated left to right.
RECURSIVE DigitsToInt(_, _)
DigitsToInt(ds, acc) ==
    IF ds = <<>> THEN acc
    ELSE DigitsToInt(Tail(ds), acc * 10 + DigitValue(Head(ds)))

RECURSIVE StripLeadingZeros(_)
StripLeadingZeros(ds) ==
    IF Len(ds) > 1 /\ Head(ds) = "0" THEN StripLeadingZeros(Tail(ds)) ELSE ds

\* a <= b for two runs of ASCII digits of any length, compared as numbers
DigitsLeq(a, b) ==
    LET x == StripLeadingZeros(a)
        y == StripLeadingZeros(b)
    IN  \/ Len(x) < Len(y)
        \/ /\ Len(x) = Len(y)
           /\ \/ x = y
              \/ \E i \in 1..Len(x) :
                    /\ \A j \in 1..(i - 1) : x[j] = y[j]
                    /\ DigitValue(x[i]) < DigitValue(y[i])

\* str::starts_with(char) / str::ends_with(char)
starts_with(s, c) == Len(s) > 0 /\ s[1] = c
ends_with(s, c) == Len(s) > 0 /\ s[Len(s)] = c

RECURSIVE trim_start(_)
trim_start(s) ==
    IF s # <<>> /\ IsWhitespace(Head(s)) THEN trim_start(Tail(s)) ELSE s

RECURSIVE trim_end(_)
trim_end(s) ==
    IF s # <<>> /\ IsWhitespace(s[Len(s)])
    THEN trim_end(SubSeq(s, 1, Len(s) - 1))
    ELSE s

\* str::trim: whitespace removed from both ends
trim(s) == trim_end(trim_start(s))

\* str::trim_matches(set): EVERY leading and trailing character of the set
\* is removed, not only one.
RECURSIVE trim_matches_start(_, _)
trim_matches_start(s, set) ==
    IF s # <<>> /\ Head(s) \in set THEN trim_matches_start(Tail(s), set) ELSE s

RECURSIVE trim_matches_end(_, _)
trim_matches_end(s, set) ==
    IF s # <<>> /\ s[Len(s)] \in set
    THEN trim_matches_end(SubSeq(s, 1, Len(s) - 1), set)
    ELSE s

trim_matches(s, set) == trim_matches_end(trim_matches_start(s, set), set)

\* str::split(char): the pieces between the separators, in order; always at
\* least one piece (the empty text gives one empty piece).
split(s, sep) ==
    LET ends == {0, Len(s) + 1} \cup {i \in 1..Len(s) : s[i] = sep}
        \* the k-th of the piece boundaries, counted from 0
        boundary(k) == CHOOSE b \in ends : Cardinality({c \in ends : c < b}) = k
    IN  [k \in 1..(Cardinality(ends) - 1) |->
            SubSeq(s, boundary(k - 1) + 1, boundary(k) - 1)]

\* [&str]::join(sep): the pieces with sep between them
RECURSIVE JoinWith(_, _)
JoinWith(pieces, sep) ==
    IF Len(pieces) = 0 THEN <<>>
    ELSE IF Len(pieces) = 1 THEN pieces[1]
    ELSE pieces[1] \o sep \o JoinWith(Tail(pieces), sep)

----------------------------------------------------------------------------
(* Integers of the code: i64 *)

I64MaxDigits ==
    <<"9","2","2","3","3","7","2","0","3","6","8","5","4","7","7","5","8","0","7">>

\* <i64 as FromStr>::from_str on a text the regex captured (so never empty
\* and never signed): every character must be an ASCII digit and the number
\* must not exceed i64::MAX.  The number is kept as its digits.
parse_i64_digits(number_str) ==
    IF /\ number_str # <<>>
       /\ \A i \in 1..Len(number_str) : IsAsciiDigit(number_str[i])
       /\ DigitsLeq(number_str, I64MaxDigits)
    THEN [ok |-> TRUE, digits |-> StripLeadingZeros(number_str)]
    ELSE [ok |-> FALSE]

----------------------------------------------------------------------------
(* time::Duration: whole seconds and a sub-second part.  Every sub-second   *)
(* part this program produces comes from Duration::milliseconds, so it is   *)
(* kept in milliseconds.                                                    *)

SecondsPerMinute == 60
SecondsPerHour == 3600
SecondsPerDay == 86400
SecondsPerWeek == 604800

\* floor(i64::MAX / unit length): the largest count Duration::<unit> takes
MaxMinutesDigits ==
    <<"1","5","3","7","2","2","8","6","7","2","8","0","9","1","2","9","3","0">>
MaxHoursDigits ==
    <<"2","5","6","2","0","4","7","7","8","8","0","1","5","2","1","5">>
MaxDaysDigits ==
    <<"1","0","6","7","5","1","9","9","1","1","6","7","3","0","0">>
MaxWeeksDigits ==
    <<"1","5","2","5","0","2","8","4","4","5","2","4","7","1">>

Duration(secs, ms) == [seconds |-> secs, subsec_millis |-> ms]

DurationOk(d) == [kind |-> "Ok", duration |-> d]
InvalidSyntax == [kind |-> "InvalidSyntax"]
\* count * unit length left the i64 range inside the Duration constructor:
\* the call does not return a Duration of that length (it panics, or in an
\* unchecked build wraps).
DurationOverflow == [kind |-> "Overflow"]

\* Duration::seconds|minutes|hours|days|weeks(number), number >= 0 as digits
DurationOfUnits(digits, unit_seconds, max_digits) ==
    IF DigitsLeq(digits, max_digits)
    THEN DurationOk(Duration(DigitsToInt(digits, 0) * unit_seconds, 0))
    ELSE DurationOverflow


\* time::Duration + Duration (checked_add, with the sub-second part carried
\* into the seconds).  The values of the model stay far inside the i64 range.
DurationAdd(a, b) ==
    LET secs == a.seconds + b.seconds
        ms == a.subsec_millis + b.subsec_millis
    IN  IF ms >= 1000 \/ (secs < 0 /\ ms > 0) THEN Duration(secs + 1, ms - 1000)
        ELSE IF ms <= -1000 \/ (secs > 0 /\ ms < 0) THEN Duration(secs - 1, ms + 1000)
        ELSE Duration(secs, ms)

DurationZero == Duration(0, 0)

\* Iterator::sum over &Duration: a left fold of + from Duration::ZERO
RECURSIVE DurationSum(_, _)
DurationSum(ds, acc) ==
    IF ds = <<>> THEN acc ELSE DurationSum(Tail(ds), DurationAdd(acc, Head(ds)))

----------------------------------------------------------------------------
(* The duration grammar: ^(\d+)(s|m|h|d|w)$ *)

UnitLetters == {"s", "m", "h", "d", "w"}

NoMatch == [matched |-> FALSE]

\* A pattern without the closing '$': the leading run of digits and the unit
\* letter after it match, whatever follows.
RECURSIVE DigitRunLength(_)
DigitRunLength(s) ==
    IF s # <<>> /\ IsRegexDigit(Head(s)) THEN 1 + DigitRunLength(Tail(s)) ELSE 0

captures_unanchored(s) ==
    LET n == DigitRunLength(s)
    IN  IF n >= 1 /\ Len(s) > n /\ s[n + 1] \in UnitLetters
        THEN [matched |-> TRUE, number_str |-> SubSeq(s, 1, n), unit |-> s[n + 1]]
        ELSE NoMatch

\* duration_unit_syntax_regex().captures(s).  \d and the unit letters are
\* disjoint, so a match is unique: the last character is the unit and every
\* character before it, at least one, is a digit.  '$' matches only at the
\* very end of the text (no multi-line mode).
captures(s) ==
    IF /\ Len(s) >= 2
       /\ s[Len(s)] \in UnitLetters
       /\ \A i \in 1..(Len(s) - 1) : IsRegexDigit(s[i])
    THEN [matched |-> TRUE, number_str |-> SubSeq(s, 1, Len(s) - 1), unit |-> s[Len(s)]]
    ELSE NoMatch

\* The unit table with the day arm building hours.
duration_of_unit_days_as_hours(unit, digits) ==
    CASE unit = "s" -> DurationOfUnits(digits, 1, I64MaxDigits)
      [] unit = "m" -> DurationOfUnits(digits, SecondsPerMinute, MaxMinutesDigits)
      [] unit = "h" -> DurationOfUnits(digits, SecondsPerHour, MaxHoursDigits)
      [] unit = "d" -> DurationOfUnits(digits, SecondsPerHour, MaxHoursDigits)
      [] unit = "w" -> DurationOfUnits(digits, SecondsPerWeek, MaxWeeksDigits)
      [] OTHER -> InvalidSyntax

\* match unit { "s" => Duration::seconds(number), ... }
duration_of_unit(unit, digits) ==
    CASE unit = "s" -> DurationOfUnits(digits, 1, I64MaxDigits)
      [] unit = "m" -> DurationOfUnits(digits, SecondsPerMinute, MaxMinutesDigits)
      [] unit = "h" -> DurationOfUnits(digits, SecondsPerHour, MaxHoursDigits)
      [] unit = "d" -> DurationOfUnits(digits, SecondsPerDay, MaxDaysDigits)
      [] unit = "w" -> DurationOfUnits(digits, SecondsPerWeek, MaxWeeksDigits)
      [] OTHER -> InvalidSyntax

\* <&str as DurationDeserializer>::to_duration
to_duration(s) ==
    LET caps == captures(s)
    IN  IF caps.matched
        THEN LET number == parse_i64_digits(caps.number_str)
             IN  IF number.ok
                 THEN duration_of_unit(caps.unit, number.digits)
                 ELSE InvalidSyntax
        ELSE InvalidSyntax

----------------------------------------------------------------------------
(* DurationSequence *)

EmptySequence == [kind |-> "EmptySequence"]

\* from_vec with the emptiness check left out
from_vec_unchecked(dur_seq) ==
    [kind |-> "Ok",
     value |-> [sequence |-> dur_seq, total_duration |-> DurationSum(dur_seq, DurationZero)]]

\* DurationSequence::from_vec
from_vec(dur_seq) ==
    IF Len(dur_seq) = 0 THEN EmptySequence
    ELSE [kind |-> "Ok",
          value |-> [sequence |-> dur_seq, total_duration |-> DurationSum(dur_seq, DurationZero)]]

\* DurationSequence::get_from_sequence: Vec::get
get_from_sequence(self, index) ==
    IF index + 1 \in 1..Len(self.sequence)
    THEN [some |-> TRUE, value |-> self.sequence[index + 1]]
    ELSE [some |-> FALSE]

\* DurationSequence::get_from_sequence_or_first; the inner unwrap panics when
\* the sequence holds no element.
get_from_sequence_or_first(self, index) ==
    LET got == get_from_sequence(self, index)
    IN  IF got.some THEN [kind |-> "Ok", value |-> got.value]
        ELSE LET first == get_from_sequence(self, 0)
             IN  IF first.some THEN [kind |-> "Ok", value |-> first.value]
                 ELSE [kind |-> "Panic"]

\* push that appends without touching the cached total
push_without_total(self, d) ==
    [sequence |-> Append(self.sequence, d), total_duration |-> self.total_duration]

\* DurationSequence::push
push(self, d) ==
    [sequence |-> Append(self.sequence, d),
     total_duration |-> DurationAdd(self.total_duration, d)]

----------------------------------------------------------------------------
(* The duration sequence grammar *)

\* The loop with each parsed Duration put in front of the ones before it.
RECURSIVE parse_pieces_prepending(_, _)
parse_pieces_prepending(pieces, duration_seq) ==
    IF pieces = <<>> THEN [kind |-> "Ok", durations |-> duration_seq]
    ELSE LET d == to_duration(trim(Head(pieces)))
         IN  IF d.kind = "Ok"
             THEN parse_pieces_prepending(Tail(pieces), <<d.duration>> \o duration_seq)
             ELSE d

\* The loop over the pieces: each is trimmed and parsed, the first piece that
\* does not give a Duration ends the call with that outcome (the ? operator,
\* or the panic of the constructor).
RECURSIVE parse_pieces(_, _)
parse_pieces(pieces, duration_seq) ==
    IF pieces = <<>> THEN [kind |-> "Ok", durations |-> duration_seq]
    ELSE LET d == to_duration(trim(Head(pieces)))
         IN  IF d.kind = "Ok"
             THEN parse_pieces(Tail(pieces), Append(duration_seq, d.duration))
             ELSE d

\* <&str as DurationSequenceDeserializer>::to_duration_sequence
to_duration_sequence(s) ==
    IF ~starts_with(s, "[") \/ ~ends_with(s, "]")
    THEN LET d == to_duration(s)
         IN  IF d.kind = "Ok" THEN from_vec(<<d.duration>>) ELSE d
    ELSE LET normalized_str == trim_matches(s, {"[", "]"})
             parsed == parse_pieces(split(normalized_str, ","), <<>>)
         IN  IF parsed.kind # "Ok" THEN parsed
             ELSE IF Len(parsed.durations) < 1 THEN InvalidSyntax
             ELSE from_vec(parsed.durations)

----------------------------------------------------------------------------
(* str::parse for the integer types of the settings *)

U16MaxDigits == <<"6","5","5","3","5">>
U32MaxDigits == <<"4","2","9","4","9","6","7","2","9","5">>
\* usize on a 64-bit target
UsizeMaxDigits ==
    <<"1","8","4","4","6","7","4","4","0","7","3","7","0","9","5","5","1","6","1","5">>
\* -i64::MIN
I64MinMagnitudeDigits ==
    <<"9","2","2","3","3","7","2","0","3","6","8","5","4","7","7","5","8","0","8">>

AllAsciiDigits(s) == \A i \in 1..Len(s) : IsAsciiDigit(s[i])

ParseError == [ok |-> FALSE]

\* <uN as FromStr>::from_str: an optional '+', then one or more ASCII digits,
\* the value at most max_digits.  No whitespace, no '-'.
parse_unsigned(s, max_digits) ==
    IF s = <<>> THEN ParseError
    ELSE LET digits == IF Head(s) = "+" THEN Tail(s) ELSE s
         IN  IF digits # <<>> /\ AllAsciiDigits(digits) /\ DigitsLeq(digits, max_digits)
             THEN [ok |-> TRUE, value |-> DigitsToInt(digits, 0)]
             ELSE ParseError

\* <i64 as FromStr>::from_str: an optional '+' or '-', then one or more ASCII
\* digits, the value inside i64.
parse_i64(s) ==
    IF s = <<>> THEN ParseError
    ELSE LET negative == Head(s) = "-"
             digits == IF Head(s) \in {"+", "-"} THEN Tail(s) ELSE s
         IN  IF /\ digits # <<>>
                /\ AllAsciiDigits(digits)
                /\ DigitsLeq(digits, IF negative THEN I64MinMagnitudeDigits
                                                 ELSE I64MaxDigits)
             THEN [ok |-> TRUE,
                   value |-> IF negative THEN 0 - DigitsToInt(digits, 0)
                                         ELSE DigitsToInt(digits, 0)]
             ELSE ParseError

\* Duration::milliseconds(ms): the division and the remainder truncate
\* toward zero, so a negative count gives a negative sub-second part.
MillisPerSecond == 1000

Duration_milliseconds(ms) ==
    IF ms >= 0
    THEN Duration(ms \div MillisPerSecond, ms % MillisPerSecond)
    ELSE Duration(0 - ((0 - ms) \div MillisPerSecond), 0 - ((0 - ms) % MillisPerSecond))

----------------------------------------------------------------------------
(* The properties text decoders *)

\* HashMap<String, String> as a function from key text to value text
EmptyMap == <<>>

map_insert(map, key, value) ==
    [k \in (DOMAIN map) \cup {key} |-> IF k = key THEN value ELSE map[k]]

\* The loop body with only the part after the first '=' taken as the value.
decode_record_second_part_only(map, record) ==
    LET line == trim(record)
    IN  IF starts_with(trim(line), "#") THEN map
        ELSE LET key_and_value == split(line, "=")
             IN  IF Len(key_and_value) < 2 THEN map
                 ELSE map_insert(map, key_and_value[1], trim(key_and_value[2]))

\* One record of either decoder (the body of the two loops is the same).
decode_record(map, record) ==
    LET line == trim(record)
    IN  IF starts_with(trim(line), "#") THEN map
        ELSE LET key_and_value == split(line, "=")
             IN  IF Len(key_and_value) < 2 THEN map
                 ELSE map_insert(map, key_and_value[1],
                                 trim(JoinWith(Tail(key_and_value), <<"=">>)))

RECURSIVE decode_records(_, _)
decode_records(map, records) ==
    IF records = <<>> THEN map
    ELSE decode_records(decode_record(map, Head(records)), Tail(records))

properties_file_content_to_map(file_content) ==
    decode_records(EmptyMap, split(file_content, "\n"))

properties_separate_by_semicolon_to_map(content) ==
    decode_records(EmptyMap, split(content, ";"))

----------------------------------------------------------------------------
(* The settings model *)

None == [some |-> FALSE]
Some(v) == [some |-> TRUE, value |-> v]
is_none(o) == ~o.some

\* Configuration::new with the five groups' new()
Configuration_new ==
    [cluster |->
        [auth_key |-> None, controller_host |-> None, request_timeout |-> None],
     database |->
        [dead_messages_retention |-> None, delivered_messages_retention |-> None],
     messages_processor |->
        [message_delivery_timeout |-> None, workers_count |-> None],
     networking |->
        [client_protocols |-> None, restful_port |-> None],
     retry_policy |->
        [default_interval |-> None, default_max_attempts |-> None,
         max_interval_limit |-> None, max_attempts_limit |-> None]]

\* The recognized keys
KeyAuthKey == <<"cluster.authKey">>
KeyControllerHost == <<"cluster.controller.host">>
KeyRequestTimeout == <<"cluster.requestTimeout">>
KeyDeadRetention == <<"db.deadMessages.retention">>
KeyDeliveredRetention == <<"db.deliveredMessages.retention">>
KeyDeliveryTimeout == <<"msgproc.message_delivery_timeout">>
KeyWorkers == <<"msgproc.workers">>
KeyProtocols == <<"net.client.protocols">>
KeyRestfulPort == <<"net.client.restful.port">>
KeyDefaultInterval == <<"retryPolicy.defaults.interval">>
KeyDefaultMaxAttempts == <<"retryPolicy.defaults.maxAttempts">>
KeyMaxInterval == <<"retryPolicy.limit.maxInterval">>
KeyMaxAttemptsLimit == <<"retryPolicy.limit.maxAttempts">>

\* The outcome of one key's rule: the field, or the panic of its expect
Field(o) == [kind |-> "Ok", value |-> o]
\* The panic of a failed expect: its message is the expect's text, which
\* names the key and the expected form, followed by the Debug text of the
\* error; the value that failed is not in it.
Panic(key, error) == [kind |-> "Panic", key |-> key, error |-> error]

\* map.get(key).and_then(|v| Some(v.clone()))
decode_string(map, key) ==
    IF key \in DOMAIN map THEN Field(Some(map[key])) ELSE Field(None)

\* map.get(key).and_then(|v| Some(Duration::milliseconds(v.parse().expect(..))))
decode_milliseconds(map, key) ==
    IF key \in DOMAIN map
    THEN LET n == parse_i64(map[key])
         IN  IF n.ok THEN Field(Some(Duration_milliseconds(n.value)))
             ELSE Panic(key, "ParseIntError")
    ELSE Field(None)

\* The rule with a zero put where the key is absent.
decode_unsigned_defaulting(map, key, max_digits) ==
    IF key \in DOMAIN map
    THEN LET n == parse_unsigned(map[key], max_digits)
         IN  IF n.ok THEN Field(Some(n.value)) ELSE Panic(key, "ParseIntError")
    ELSE Field(Some(0))

\* map.get(key).and_then(|v| Some(v.parse().expect(..))) into usize, u32, u16
decode_unsigned(map, key, max_digits) ==
    IF key \in DOMAIN map
    THEN LET n == parse_unsigned(map[key], max_digits)
         IN  IF n.ok THEN Field(Some(n.value)) ELSE Panic(key, "ParseIntError")
    ELSE Field(None)

\* The rule with a value that is no Duration left out instead of refused.
decode_duration_ignoring(map, key) ==
    IF key \in DOMAIN map
    THEN LET d == to_duration(map[key])
         IN  IF d.kind = "Ok" THEN Field(Some(d.duration))
             ELSE IF d = InvalidSyntax THEN Field(None)
             ELSE d
    ELSE Field(None)

\* map.get(key).and_then(|v| Some(v.as_str().to_duration().expect(..)))
decode_duration(map, key) ==
    IF key \in DOMAIN map
    THEN LET d == to_duration(map[key])
         IN  IF d.kind = "Ok" THEN Field(Some(d.duration))
             ELSE IF d = InvalidSyntax THEN Panic(key, "InvalidSyntax")
             ELSE d
    ELSE Field(None)

\* map.get(key).and_then(|v| Some(v.as_str().to_duration_sequence().expect(..)))
decode_duration_sequence(map, key) ==
    IF key \in DOMAIN map
    THEN LET d == to_duration_sequence(map[key])
         IN  IF d.kind = "Ok" THEN Field(Some(d.value))
             ELSE IF d = InvalidSyntax THEN Panic(key, "InvalidSyntax")
             ELSE d
    ELSE Field(None)

\* map.get(key).and_then(|v| Some(v.split(',').map(|v| v.trim()).collect()))
decode_string_set(map, key) ==
    IF key \in DOMAIN map
    THEN LET pieces == split(map[key], ",")
         IN  Field(Some({trim(pieces[i]) : i \in 1..Len(pieces)}))
    ELSE Field(None)

\* The thirteen rules of Configuration::from_map, in the order of the code
from_map_rules(map) ==
    <<decode_string(map, KeyAuthKey),
      decode_string(map, KeyControllerHost),
      decode_milliseconds(map, KeyRequestTimeout),
      decode_duration(map, KeyDeadRetention),
      decode_duration(map, KeyDeliveredRetention),
      decode_milliseconds(map, KeyDeliveryTimeout),
      decode_unsigned(map, KeyWorkers, UsizeMaxDigits),
      decode_string_set(map, KeyProtocols),
      decode_unsigned(map, KeyRestfulPort, U32MaxDigits),
      decode_duration_sequence(map, KeyDefaultInterval),
      decode_unsigned(map, KeyDefaultMaxAttempts, U16MaxDigits),
      decode_duration(map, KeyMaxInterval),
      decode_unsigned(map, KeyMaxAttemptsLimit, U16MaxDigits)>>

\* The struct literal of Configuration::from_map: the first rule whose expect
\* fails panics and no Configuration is returned.
configuration_of_rules(rules) ==
    IF \E i \in 1..Len(rules) : rules[i].kind # "Ok"
    THEN rules[CHOOSE i \in 1..Len(rules) :
                   /\ rules[i].kind # "Ok"
                   /\ \A j \in 1..(i - 1) : rules[j].kind = "Ok"]
    ELSE [kind |-> "Ok",
          value |->
            [cluster |->
                [auth_key |-> rules[1].value,
                 controller_host |-> rules[2].value,
                 request_timeout |-> rules[3].value],
             database |->
                [dead_messages_retention |-> rules[4].value,
                 delivered_messages_retention |-> rules[5].value],
             messages_processor |->
                [message_delivery_timeout |-> rules[6].value,
                 workers_count |-> rules[7].value],
             networking |->
                [client_protocols |-> rules[8].value,
                 restful_port |-> rules[9].value],
             retry_policy |->
                [default_interval |-> rules[10].value,
                 default_max_attempts |-> rules[11].value,
                 max_interval_limit |-> rules[12].value,
                 max_attempts_limit |-> rules[13].value]]]

from_map(map) == configuration_of_rules(from_map_rules(map))

\* "fill if absent": the field of self when it is set, else the one of other
fill(mine, theirs) == IF is_none(mine) THEN theirs ELSE mine

\* "overwrite": the field of other whenever other sets it
fill_source_wins(mine, theirs) == IF is_none(theirs) THEN mine ELSE theirs

\* merge in which the last field is filled from the wrong field of other
merge_wrong_source_field(self, other) ==
    [cluster |->
        [auth_key |-> fill(self.cluster.auth_key, other.cluster.auth_key),
         controller_host |->
            fill(self.cluster.controller_host, other.cluster.controller_host),
         request_timeout |->
            fill(self.cluster.request_timeout, other.cluster.request_timeout)],
     database |->
        [dead_messages_retention |->
            fill(self.database.dead_messages_retention,
                 other.database.dead_messages_retention),
         delivered_messages_retention |->
            fill(self.database.delivered_messages_retention,
                 other.database.delivered_messages_retention)],
     messages_processor |->
        [message_delivery_timeout |->
            fill(self.messages_processor.message_delivery_timeout,
                 other.messages_processor.message_delivery_timeout),
         workers_count |->
            fill(self.messages_processor.workers_count,
                 other.messages_processor.workers_count)],
     networking |->
        [client_protocols |->
            fill(self.networking.client_protocols, other.networking.client_protocols),
         restful_port |->
            fill(self.networking.restful_port, other.networking.restful_port)],
     retry_policy |->
        [default_interval |->
            fill(self.retry_policy.default_interval,
                 other.retry_policy.default_interval),
         default_max_attempts |->
            fill(self.retry_policy.default_max_attempts,
                 other.retry_policy.default_max_attempts),
         max_interval_limit |->
            fill(self.retry_policy.max_interval_limit,
                 other.retry_policy.max_interval_limit),
         max_attempts_limit |->
            fill(self.retry_policy.max_attempts_limit,
                 other.retry_policy.default_max_attempts)]]

\* merge in which a set field of other replaces the field of self
merge_source_wins(self, other) ==
    [cluster |->
        [auth_key |-> fill_source_wins(self.cluster.auth_key, other.cluster.auth_key),
         controller_host |->
            fill_source_wins(self.cluster.controller_host, other.cluster.controller_host),
         request_timeout |->
            fill_source_wins(self.cluster.request_timeout, other.cluster.request_timeout)],
     database |->
        [dead_messages_retention |->
            fill_source_wins(self.database.dead_messages_retention,
                             other.database.dead_messages_retention),
         delivered_messages_retention |->
            fill_source_wins(self.database.delivered_messages_retention,
                             other.database.delivered_messages_retention)],
     messages_processor |->
        [message_delivery_timeout |->
            fill_source_wins(self.messages_processor.message_delivery_timeout,
                             other.messages_processor.message_delivery_timeout),
         workers_count |->
            fill_source_wins(self.messages_processor.workers_count,
                             other.messages_processor.workers_count)],
     networking |->
        [client_protocols |->
            fill_source_wins(self.networking.client_protocols,
                             other.networking.client_protocols),
         restful_port |->
            fill_source_wins(self.networking.restful_port,
                             other.networking.restful_port)],
     retry_policy |->
        [default_interval |->
            fill_source_wins(self.retry_policy.default_interval,
                             other.retry_policy.default_interval),
         default_max_attempts |->
            fill_source_wins(self.retry_policy.default_max_attempts,
                             other.retry_policy.default_max_attempts),
         max_interval_limit |->
            fill_source_wins(self.retry_policy.max_interval_limit,
                             other.retry_policy.max_interval_limit),
         max_attempts_limit |->
            fill_source_wins(self.retry_policy.max_attempts_limit,
                             other.retry_policy.max_attempts_limit)]]

\* Configuration::merge: the thirteen "if self.<field>.is_none()" statements
merge(self, other) ==
    [cluster |->
        [auth_key |-> fill(self.cluster.auth_key, other.cluster.auth_key),
         controller_host |->
            fill(self.cluster.controller_host, other.cluster.controller_host),
         request_timeout |->
            fill(self.cluster.request_timeout, other.cluster.request_timeout)],
     database |->
        [dead_messages_retention |->
            fill(self.database.dead_messages_retention,
                 other.database.dead_messages_retention),
         delivered_messages_retention |->
            fill(self.database.delivered_messages_retention,
                 other.database.delivered_messages_retention)],
     messages_processor |->
        [message_delivery_timeout |->
            fill(self.messages_processor.message_delivery_timeout,
                 other.messages_processor.message_delivery_timeout),
         workers_count |->
            fill(self.messages_processor.workers_count,
                 other.messages_processor.workers_count)],
     networking |->
        [client_protocols |->
            fill(self.networking.client_protocols, other.networking.client_protocols),
         restful_port |->
            fill(self.networking.restful_port, other.networking.restful_port)],
     retry_policy |->
        [default_interval |->
            fill(self.retry_policy.default_interval,
                 other.retry_policy.default_interval),
         default_max_attempts |->
            fill(self.retry_policy.default_max_attempts,
                 other.retry_policy.default_max_attempts),
         max_interval_limit |->
            fill(self.retry_policy.max_interval_limit,
                 other.retry_policy.max_interval_limit),
         max_attempts_limit |->
            fill(self.retry_policy.max_attempts_limit,
                 other.retry_policy.max_attempts_limit)]]

----------------------------------------------------------------------------
(* Properties texts *)

\* TEST_CONF_PROPERTIES_FILE of the tests of config.rs
TestConfPropertiesFile ==
    JoinWith(
      << <<>>,
         <<>>,
         <<"#", " ", "Cluster", " ", "configurations">>,
         KeyAuthKey \o <<"=", "abcd1234">>,
         KeyControllerHost \o <<"=", "webhooks.my-web.services">>,
         KeyRequestTimeout \o <<"=", "1", "0", "0", "0", "0">>,
         <<>>,
         <<"#", " ", "Database", " ", "properties">>,
         KeyDeadRetention \o <<"=", "3", "0", "d">>,
         KeyDeliveredRetention \o <<"=", "3", "0", "d">>,
         <<>>,
         <<"#", " ", "Message", " ", "Processor", " ", "configurations">>,
         KeyDeliveryTimeout \o <<"=", "1", "0", "0", "0", "0">>,
         KeyWorkers \o <<"=", "5", "0", "0">>,
         <<>>,
         <<"#", " ", "Configuration", " ", "about", " ", "the", " ", "client">>,
         KeyProtocols \o <<"=", "restful">>,
         KeyRestfulPort \o <<"=", "8", "0">>,
         <<>>,
         <<"#", " ", "The", " ", "default", " ", "values">>,
         KeyDefaultInterval \o <<"=", "1", "d">>,
         KeyDefaultMaxAttempts \o <<"=", "7">>,
         <<>>,
         <<"#", " ", "The", " ", "limit">>,
         KeyMaxInterval \o <<"=", "3", "0", "d">>,
         KeyMaxAttemptsLimit \o <<"=", "2", "0">>,
         <<" ", " ", " ", " ">>,
         <<" ", " ", " ", " ">> >>,
      <<"\n">>)

\* The records "key=value" of a setting source, in the order of the keys.
\* Source "file" holds the values of the sample file, source "env" another
\* value for every key.
RecognizedKeys ==
    <<KeyAuthKey, KeyControllerHost, KeyRequestTimeout, KeyDeadRetention,
      KeyDeliveredRetention, KeyDeliveryTimeout, KeyWorkers, KeyProtocols,
      KeyRestfulPort, KeyDefaultInterval, KeyDefaultMaxAttempts, KeyMaxInterval,
      KeyMaxAttemptsLimit>>

FileValues ==
    << <<"abcd1234">>, <<"webhooks.my-web.services">>, <<"1", "0", "0", "0", "0">>,
       <<"3", "0", "d">>, <<"3", "0", "d">>, <<"1", "0", "0", "0", "0">>,
       <<"5", "0", "0">>, <<"restful">>, <<"8", "0">>, <<"1", "d">>, <<"7">>,
       <<"3", "0", "d">>, <<"2", "0">> >>

EnvValues ==
    << <<"envkey">>, <<"env.host">>, <<"2", "5", "0">>,
       <<"7", "d">>, <<"2", "w">>, <<"1", "5", "0", "0">>,
       <<"4">>, <<"restful", ",", " ", "grpc">>, <<"8", "0", "8", "0">>,
       <<"[", "5", "m", ",", " ", "1", "h", "]">>, <<"3">>,
       <<"1", "2", "h">>, <<"9">> >>

RECURSIVE RecordsFrom(_, _, _)
RecordsFrom(i, keys, values) ==
    IF i > Len(RecognizedKeys) THEN <<>>
    ELSE (IF i \in keys THEN <<RecognizedKeys[i] \o <<"=">> \o values[i]>> ELSE <<>>)
         \o RecordsFrom(i + 1, keys, values)

\* a properties file holding the keys numbered in keys
FileText(keys, values) == JoinWith(RecordsFrom(1, keys, values), <<"\n">>)
\* an ANGLER_CFG value holding the keys numbered in keys
SemicolonText(keys, values) == JoinWith(RecordsFrom(1, keys, values), <<";", " ">>)

AllKeys == 1..13
KeyGroups == {1..3, 4..5, 6..7, 8..9, 10..13}

----------------------------------------------------------------------------
(* Inputs of the two deserializers *)

Pending == [kind |-> "Pending"]

SmallAlphabet == {"5", "m", "x", " ", ",", "[", "]", "-"}

\* n's digits immediately followed by a unit letter
CountInputs == {ToDigits(n) \o <<u>> : n \in 0..MaxCount, u \in UnitLetters}

SmallTexts == UNION {[1..n -> SmallAlphabet] : n \in 0..MaxLen}

ListPieces ==
    {<<"5", "m">>, <<"1", "h">>, <<"3", "d">>, <<>>, <<"5", " ", "m">>, <<"5", "x">>}
ListSeparators == {<<",">>, <<",", " ">>, <<" ", ",", " ">>, <<" ">>}
ListWraps ==
    {<< <<>>, <<>> >>, << <<"[">>, <<"]">> >>, << <<"[", "[">>, <<"]">> >>,
     << <<"[">>, <<"]", "]">> >>, << <<"[", "[">>, <<"]", "]">> >>,
     << <<"[">>, <<>> >>, << <<>>, <<"]">> >>, << <<"[", " ">>, <<" ", "]">> >>}
ListInputs ==
    {w[1] \o JoinWith(ps, sep) \o w[2] :
        ps \in UNION {[1..k -> ListPieces] : k \in 1..MaxTokens},
        sep \in ListSeparators, w \in ListWraps}

\* "[5m, 5m, 1h, 12h, 36h, 1d, 1d, 1d, 3d]"
NineElements ==
    <<"[">> \o
    JoinWith(<< <<"5", "m">>, <<"5", "m">>, <<"1", "h">>, <<"1", "2", "h">>,
                <<"3", "6", "h">>, <<"1", "d">>, <<"1", "d">>, <<"1", "d">>,
                <<"3", "d">> >>, <<",", " ">>)
    \o <<"]">>

\* i64::MAX + 1
I64MaxPlusOneDigits ==
    <<"9","2","2","3","3","7","2","0","3","6","8","5","4","7","7","5","8","0","8">>
\* floor(i64::MAX / 604800) + 1: fits an i64, its length in seconds does not
MaxWeeksPlusOneDigits ==
    <<"1","5","2","5","0","2","8","4","4","5","2","4","7","2">>

OverflowingWeeks == MaxWeeksPlusOneDigits \o <<"w">>

\* the least counts of minutes, hours and days whose length in seconds is
\* outside the i64 range (floor(i64::MAX / unit length) + 1), and the weeks
OverflowingInputs ==
    {<<"1","5","3","7","2","2","8","6","7","2","8","0","9","1","2","9","3","1","m">>,
     <<"2","5","6","2","0","4","7","7","8","8","0","1","5","2","1","6","h">>,
     <<"1","0","6","7","5","1","9","9","1","1","6","7","3","0","1","d">>,
     OverflowingWeeks}

ExplicitInputs ==
    OverflowingInputs \cup
    {NineElements,
     <<"5", "x">>, <<"5">>, <<"h", "5">>,
     <<"1", "h", "3", "0", "m">>,
     <<"0", "0", "7", "d">>,
     <<"5", "h", "\n">>, <<" ", "5", "h">>, <<"+", "5", "h">>,
     <<ArabicIndicThree, "s">>,
     I64MaxPlusOneDigits \o <<"s">>,
     I64MaxPlusOneDigits \o <<"w">>,
     OverflowingWeeks,
     <<"[">> \o OverflowingWeeks \o <<",", " ", "x", "]">>,
     <<"[", "5", "m", " ", "5", "m", ",", " ", "1", "h", "]">>,
     <<"[", "5", "m", ",", "1", "h", ",", "3", "d", "]">>}

TimeInputs == CountInputs \cup SmallTexts \cup ListInputs \cup ExplicitInputs

----------------------------------------------------------------------------
(* The parts of the state a specification does not use stay idle *)

NoSequence == [kind |-> "None"]
NoCall == [op |-> "none"]
Missing == [exists |-> FALSE]
FileWith(content) == [exists |-> TRUE, content |-> content]
NotPresent == [present |-> FALSE]
Present(value) == [present |-> TRUE, value |-> value]
Threads == 1..NumThreads
NotDecoded == [decoded |-> FALSE]
Decoded(map) == [decoded |-> TRUE, map |-> map]

TimeIdle == input = <<>> /\ dur_result = Pending /\ seq_result = Pending
SeqIdle == duration_sequence = NoSequence /\ sequence_call = NoCall
MergeIdle ==
    /\ target = Configuration_new
    /\ merge_initial = Configuration_new
    /\ merge_before = Configuration_new
    /\ merge_sources = <<>>
EnvIdle ==
    /\ dev_flag = FALSE
    /\ conf_files = [dev |-> Missing, prod |-> Missing]
    /\ angler_cfg = NotPresent
    /\ once = "Incomplete"
    /\ cell = None
    /\ pc = [t \in Threads |-> "idle"]
    /\ local = [t \in Threads |-> Configuration_new]
    /\ obtained = [t \in Threads |-> <<>>]
    /\ init_runs = 0
    /\ completions = 0
DecodeIdle == record_list = <<>> /\ file_map = NotDecoded /\ semicolon_map = NotDecoded
MapIdle ==
    /\ settings_map = EmptyMap
    /\ from_map_result = Pending
    /\ map_before = EmptyMap
    /\ result_before = Pending

----------------------------------------------------------------------------
(* SpecTime: the two deserializers applied to a text *)

InitTime ==
    /\ input \in TimeInputs
    /\ dur_result = Pending
    /\ seq_result = Pending
    /\ SeqIdle /\ MergeIdle /\ EnvIdle /\ DecodeIdle /\ MapIdle

ToDuration ==
    /\ dur_result = Pending
    /\ dur_result' = to_duration(input)
    /\ UNCHANGED <<input, seq_result>>

ToDurationSequence ==
    /\ seq_result = Pending
    /\ seq_result' = to_duration_sequence(input)
    /\ UNCHANGED <<input, dur_result>>

NextTime ==
    \/ ToDuration /\ UNCHANGED <<seqVars, mergeVars, envVars, decodeVars, mapVars>>
    \/ ToDurationSequence /\ UNCHANGED <<seqVars, mergeVars, envVars, decodeVars, mapVars>>

SpecTime == InitTime /\ [][NextTime]_vars

----------------------------------------------------------------------------
(* Properties of to_duration *)

\* The unit lengths in seconds, as the specification tabulates them.
UnitLength(u) ==
    CASE u = "s" -> 1 [] u = "m" -> 60 [] u = "h" -> 3600
      [] u = "d" -> 86400 [] u = "w" -> 604800

\* One or more ASCII digits immediately followed by exactly one unit letter.
MatchesDurationGrammar(s) ==
    \E k \in 1..Len(s) :
        /\ Len(s) = k + 1
        /\ \A i \in 1..k : s[i] \in {"0", "1", "2", "3", "4", "5", "6", "7", "8", "9"}
        /\ s[k + 1] \in {"s", "m", "h", "d", "w"}

CountOf(s) == SubSeq(s, 1, Len(s) - 1)

\* n's digits: no leading zero
IsCountAndUnit(s) ==
    MatchesDurationGrammar(s) /\ (Len(s) = 2 \/ s[1] # "0")

\* C5 as amended: for every count n whose length n * unit is inside the
\* signed 64-bit range of seconds, to_duration of n's digits followed by the
\* unit letter u returns a Duration of n * UnitLength(u) seconds; so "1w",
\* "7d" and "168h" give equal durations.
C5_CountTimesUnit ==
    /\ \A n \in 0..MaxCount, u \in UnitLetters :
          (input = ToDigits(n) \o <<u>> /\ dur_result # Pending)
              => dur_result = DurationOk(Duration(n * UnitLength(u), 0))
    /\ to_duration(<<"1", "w">>) = to_duration(<<"7", "d">>)
    /\ to_duration(<<"7", "d">>) = to_duration(<<"1", "6", "8", "h">>)

C5_Witness ==
    /\ input = <<"1", "6", "8", "h">>
    /\ dur_result = DurationOk(Duration(604800, 0))

\* C5 as stated: for EVERY count n, to_duration of n's digits followed by a
\* unit letter returns a Duration (of n times the unit length).
C5_EveryCount ==
    (IsCountAndUnit(input) /\ dur_result # Pending)
        => /\ dur_result.kind = "Ok"
           /\ dur_result.duration.seconds
                  = DigitsToInt(CountOf(input), 0) * UnitLength(input[Len(input)])

\* C6: to_duration fails with InvalidSyntax for every text that is not one or
\* more digits immediately followed by one unit letter, and for every such
\* text whose count is outside the i64 range; "5x", "5" and "h5" all fail.
C6_InvalidSyntax ==
    /\ (/\ dur_result # Pending
        /\ \/ ~MatchesDurationGrammar(input)
           \/ ~DigitsLeq(CountOf(input), I64MaxDigits))
           => dur_result = InvalidSyntax
    /\ \A s \in {<<"5", "x">>, <<"5">>, <<"h", "5">>} :
          (input = s /\ dur_result # Pending) => dur_result = InvalidSyntax

C6_Witness ==
    /\ input = I64MaxPlusOneDigits \o <<"s">>
    /\ dur_result = InvalidSyntax

----------------------------------------------------------------------------
(* Properties of to_duration_sequence *)

\* Tokens with the length in seconds the grammar gives them.
TokenTable ==
    {[text |-> <<"5", "m">>, secs |-> 300],
     [text |-> <<"1", "h">>, secs |-> 3600],
     [text |-> <<"3", "d">>, secs |-> 259200]}

RECURSIVE SumSecs(_)
SumSecs(ts) == IF ts = <<>> THEN 0 ELSE Head(ts).secs + SumSecs(Tail(ts))

RECURSIVE SumSeconds(_)
SumSeconds(ds) == IF ds = <<>> THEN 0 ELSE Head(ds).seconds + SumSeconds(Tail(ds))

RECURSIVE SumSubsec(_)
SumSubsec(ds) == IF ds = <<>> THEN 0 ELSE Head(ds).subsec_millis + SumSubsec(Tail(ds))

\* total is the arithmetic sum of the elements ds: the two lengths agree in
\* milliseconds (the whole seconds are compared apart from the sub-second
\* parts, which keeps the numbers small)
IsArithmeticSum(total, ds) ==
    /\ (total.seconds - SumSeconds(ds)) * 1000 = SumSubsec(ds) - total.subsec_millis
    /\ total.subsec_millis \in -999..999

\* Duration::whole_days
WholeDays(d) == d.seconds \div SecondsPerDay

CommaSeparators == {<<",">>, <<",", " ">>, <<" ", ",", " ">>}

C9_Lists ==
    /\ seq_result.kind = "Ok" =>
          /\ Len(seq_result.value.sequence) >= 1
          /\ IsArithmeticSum(seq_result.value.total_duration,
                             seq_result.value.sequence)
    /\ \A t \in TokenTable :
          (input = t.text /\ seq_result # Pending /\ dur_result # Pending) =>
              /\ dur_result = DurationOk(Duration(t.secs, 0))
              /\ seq_result.kind = "Ok"
              /\ seq_result.value.sequence = <<dur_result.duration>>
    /\ \A ts \in UNION {[1..k -> TokenTable] : k \in 1..MaxTokens},
          sep \in CommaSeparators :
          (/\ input = <<"[">> \o JoinWith([i \in 1..Len(ts) |-> ts[i].text], sep)
                          \o <<"]">>
           /\ seq_result # Pending) =>
              /\ seq_result.kind = "Ok"
              /\ seq_result.value.sequence
                     = [i \in 1..Len(ts) |-> Duration(ts[i].secs, 0)]
              /\ seq_result.value.total_duration = Duration(SumSecs(ts), 0)

\* C9 as amended: on an accepted input to_duration_sequence yields the parsed
\* durations in their textual order with total equal to their sum; a valid
\* token alone yields [to_duration(t)], a bracketed comma list of valid
\* tokens one element per token; "[5m, 5m, 1h, 12h, 36h, 1d, 1d, 1d, 3d]"
\* yields nine elements totalling 695400 s, which is 8 days 1 hour and 10
\* minutes (8 whole days), not exactly 8 days.
C9_SequenceInOrder ==
    /\ C9_Lists
    /\ (input = NineElements /\ seq_result # Pending) =>
          /\ seq_result.kind = "Ok"
          /\ Len(seq_result.value.sequence) = 9
          /\ seq_result.value.total_duration = Duration(695400, 0)
          /\ WholeDays(seq_result.value.total_duration) = 8

C9_Witness ==
    /\ input = NineElements
    /\ seq_result.kind = "Ok"
    /\ Len(seq_result.value.sequence) = 9

\* C9 as stated: the same, with the nine elements of
\* "[5m, 5m, 1h, 12h, 36h, 1d, 1d, 1d, 3d]" totalling exactly 8 days.
C9_ExactlyEightDays ==
    /\ C9_Lists
    /\ (input = NineElements /\ seq_result # Pending) =>
          /\ seq_result.kind = "Ok"
          /\ Len(seq_result.value.sequence) = 9
          /\ seq_result.value.total_duration = Duration(8 * SecondsPerDay, 0)

\* The text between the brackets: what is left when every bracket character
\* at either end is taken away.
Interior(s) ==
    LET inner == {i \in 1..Len(s) : s[i] \notin {"[", "]"}}
    IN  IF inner = {} THEN <<>>
        ELSE SubSeq(s, CHOOSE i \in inner : \A j \in inner : i <= j,
                       CHOOSE i \in inner : \A j \in inner : j <= i)

\* The comma-separated pieces of a text, as a set.
CommaPieces(x) ==
    LET cuts == {0, Len(x) + 1} \cup {i \in 1..Len(x) : x[i] = ","}
    IN  {SubSeq(x, p + 1, q - 1) :
            <<p, q>> \in {c \in cuts \X cuts :
                             /\ c[1] < c[2]
                             /\ \A m \in cuts : ~(c[1] < m /\ m < c[2])}}

\* A piece with the whitespace at its ends removed.
Trimmed(x) ==
    LET solid == {i \in 1..Len(x) : x[i] \notin {" ", "\t", "\n", "\r"}}
    IN  IF solid = {} THEN <<>>
        ELSE SubSeq(x, CHOOSE i \in solid : \A j \in solid : i <= j,
                       CHOOSE i \in solid : \A j \in solid : j <= i)

ValidToken(t) == MatchesDurationGrammar(t) /\ DigitsLeq(CountOf(t), I64MaxDigits)

BracketDelimited(s) == Len(s) >= 1 /\ s[1] = "[" /\ s[Len(s)] = "]"

\* Some piece of the input fails the Duration grammar.
SomePieceFails(s) ==
    IF BracketDelimited(s)
    THEN \E piece \in CommaPieces(Interior(s)) : ~ValidToken(Trimmed(piece))
    ELSE ~ValidToken(s)

\* C10: to_duration_sequence fails with InvalidSyntax, giving no sequence,
\* whenever any piece fails the Duration grammar: a comma list without
\* brackets, a bracketed list with a missing comma, a token containing
\* whitespace, an empty bracket pair.
C10_AllOrNothing ==
    (seq_result # Pending /\ SomePieceFails(input)) => seq_result = InvalidSyntax

----------------------------------------------------------------------------
(* SpecSeq: one DurationSequence, built by from_vec and used through its     *)
(* public methods (the two fields are private to the type)                   *)

SampleDurations ==
    {Duration(0, 0), Duration(300, 0), Duration(3600, 0), Duration(1, 500),
     Duration(0, -500)}

InitSeq ==
    /\ duration_sequence = NoSequence
    /\ sequence_call = NoCall
    /\ TimeIdle /\ MergeIdle /\ EnvIdle /\ DecodeIdle /\ MapIdle

\* DurationSequence::from_vec(dur_seq)
FromVec(dur_seq) ==
    /\ duration_sequence = NoSequence
    /\ LET r == from_vec(dur_seq)
       IN  /\ duration_sequence' =
                  IF r.kind = "Ok" THEN [kind |-> "Some", value |-> r.value]
                  ELSE NoSequence
           /\ sequence_call' = [op |-> "from_vec", arg |-> dur_seq, result |-> r.kind]

\* self.push(d)
Push(d) ==
    /\ duration_sequence.kind = "Some"
    /\ Len(duration_sequence.value.sequence) < MaxSeqLen
    /\ duration_sequence' = [kind |-> "Some", value |-> push(duration_sequence.value, d)]
    /\ sequence_call' = [op |-> "push", arg |-> d, before |-> duration_sequence.value]

\* self.get_from_sequence_or_first(index)
GetFromSequenceOrFirst(index) ==
    /\ duration_sequence.kind = "Some"
    /\ sequence_call' =
          [op |-> "get", index |-> index,
           result |-> get_from_sequence_or_first(duration_sequence.value, index)]
    /\ UNCHANGED duration_sequence

NextSeq ==
    \/ \E dur_seq \in UNION {[1..n -> SampleDurations] : n \in 0..MaxSeqLen} :
          FromVec(dur_seq) /\ UNCHANGED notSeqVars
    \/ \E d \in SampleDurations :
          Push(d) /\ UNCHANGED notSeqVars
    \/ \E index \in 0..(MaxSeqLen + 1) :
          GetFromSequenceOrFirst(index) /\ UNCHANGED notSeqVars

SpecSeq == InitSeq /\ [][NextSeq]_vars

\* b - a is exactly d, the lengths taken in milliseconds
GrowsBy(a, b, d) ==
    (b.seconds - a.seconds - d.seconds) * 1000
        = a.subsec_millis + d.subsec_millis - b.subsec_millis

\* C7: in every state of a DurationSequence, after from_vec and after any
\* pushes, the cached total_duration is the arithmetic sum of the elements;
\* push(d) appends d as the last element, leaves the earlier elements as they
\* were and increases the total by exactly d.
C7_TotalIsSum ==
    /\ duration_sequence.kind = "Some" =>
          IsArithmeticSum(duration_sequence.value.total_duration,
                          duration_sequence.value.sequence)
    /\ (sequence_call.op = "from_vec" /\ sequence_call.result = "Ok") =>
          duration_sequence.value.sequence = sequence_call.arg
    /\ sequence_call.op = "push" =>
          /\ duration_sequence.value.sequence
                 = Append(sequence_call.before.sequence, sequence_call.arg)
          /\ GrowsBy(sequence_call.before.total_duration,
                     duration_sequence.value.total_duration, sequence_call.arg)

C7_Witness ==
    /\ sequence_call.op = "push"
    /\ sequence_call.arg = Duration(1, 500)
    /\ Len(duration_sequence.value.sequence) = 3
    /\ duration_sequence.value.total_duration = Duration(3603, 0)

\* C8: a DurationSequence holds at least one element in every state:
\* from_vec of an empty list fails with EmptySequence and builds nothing, no
\* call removes an element; so get_from_sequence_or_first returns an element
\* for every index, the one at the index when in range and the first
\* otherwise, and never fails.
C8_NeverEmpty ==
    /\ duration_sequence.kind = "Some" => Len(duration_sequence.value.sequence) >= 1
    /\ (sequence_call.op = "from_vec" /\ sequence_call.arg = <<>>) =>
          /\ sequence_call.result = "EmptySequence"
          /\ duration_sequence = NoSequence
    /\ sequence_call.op = "push" =>
          Len(duration_sequence.value.sequence)
              = Len(sequence_call.before.sequence) + 1
    /\ sequence_call.op = "get" =>
          /\ sequence_call.result.kind = "Ok"
          /\ sequence_call.result.value =
                 IF sequence_call.index < Len(duration_sequence.value.sequence)
                 THEN duration_sequence.value.sequence[sequence_call.index + 1]
                 ELSE duration_sequence.value.sequence[1]

C8_Witness ==
    /\ sequence_call.op = "get"
    /\ sequence_call.index >= Len(duration_sequence.value.sequence)
    /\ Len(duration_sequence.value.sequence) >= 2
    /\ sequence_call.result = [kind |-> "Ok", value |-> duration_sequence.value.sequence[1]]

----------------------------------------------------------------------------
(* SpecMerge: Configurations merged into a target, one after the other *)

\* What the sample file of the tests decodes to
FileConfiguration ==
    [cluster |->
        [auth_key |-> Some(<<"abcd1234">>),
         controller_host |-> Some(<<"webhooks.my-web.services">>),
         request_timeout |-> Some(Duration(10, 0))],
     database |->
        [dead_messages_retention |-> Some(Duration(2592000, 0)),
         delivered_messages_retention |-> Some(Duration(2592000, 0))],
     messages_processor |->
        [message_delivery_timeout |-> Some(Duration(10, 0)),
         workers_count |-> Some(500)],
     networking |->
        [client_protocols |-> Some({<<"restful">>}),
         restful_port |-> Some(80)],
     retry_policy |->
        [default_interval |->
            Some([sequence |-> <<Duration(86400, 0)>>,
                  total_duration |-> Duration(86400, 0)]),
         default_max_attempts |-> Some(7),
         max_interval_limit |-> Some(Duration(2592000, 0)),
         max_attempts_limit |-> Some(20)]]

\* A Configuration with another value in every field
OtherConfiguration ==
    [cluster |->
        [auth_key |-> Some(<<"envkey">>),
         controller_host |-> Some(<<"env.host">>),
         request_timeout |-> Some(Duration(0, 250))],
     database |->
        [dead_messages_retention |-> Some(Duration(604800, 0)),
         delivered_messages_retention |-> Some(Duration(1209600, 0))],
     messages_processor |->
        [message_delivery_timeout |-> Some(Duration(1, 500)),
         workers_count |-> Some(4)],
     networking |->
        [client_protocols |-> Some({<<"restful">>, <<"grpc">>}),
         restful_port |-> Some(8080)],
     retry_policy |->
        [default_interval |->
            Some([sequence |-> <<Duration(300, 0), Duration(3600, 0)>>,
                  total_duration |-> Duration(3900, 0)]),
         default_max_attempts |-> Some(3),
         max_interval_limit |-> Some(Duration(43200, 0)),
         max_attempts_limit |-> Some(9)]]

Keep(keys, k, o) == IF k \in keys THEN o ELSE None

\* c with only the fields numbered in keys left set (numbered as the keys)
Only(c, keys) ==
    [cluster |->
        [auth_key |-> Keep(keys, 1, c.cluster.auth_key),
         controller_host |-> Keep(keys, 2, c.cluster.controller_host),
         request_timeout |-> Keep(keys, 3, c.cluster.request_timeout)],
     database |->
        [dead_messages_retention |-> Keep(keys, 4, c.database.dead_messages_retention),
         delivered_messages_retention |->
            Keep(keys, 5, c.database.delivered_messages_retention)],
     messages_processor |->
        [message_delivery_timeout |->
            Keep(keys, 6, c.messages_processor.message_delivery_timeout),
         workers_count |-> Keep(keys, 7, c.messages_processor.workers_count)],
     networking |->
        [client_protocols |-> Keep(keys, 8, c.networking.client_protocols),
         restful_port |-> Keep(keys, 9, c.networking.restful_port)],
     retry_policy |->
        [default_interval |-> Keep(keys, 10, c.retry_policy.default_interval),
         default_max_attempts |-> Keep(keys, 11, c.retry_policy.default_max_attempts),
         max_interval_limit |-> Keep(keys, 12, c.retry_policy.max_interval_limit),
         max_attempts_limit |-> Keep(keys, 13, c.retry_policy.max_attempts_limit)]]

\* The empty Configuration, the two fully populated ones, every Configuration
\* with a single field of the first and every one with a single group of the
\* second.
SampleConfigurations ==
    {Configuration_new, FileConfiguration, OtherConfiguration}
    \cup {Only(FileConfiguration, {k}) : k \in AllKeys}
    \cup {Only(OtherConfiguration, g) : g \in KeyGroups}

InitMerge ==
    /\ target \in SampleConfigurations
    /\ merge_initial = target
    /\ merge_before = target
    /\ merge_sources = <<>>
    /\ TimeIdle /\ SeqIdle /\ EnvIdle /\ DecodeIdle /\ MapIdle

\* target.merge(&other)
Merge(other) ==
    /\ Len(merge_sources) < MaxMerges
    /\ target' = merge(target, other)
    /\ merge_before' = target
    /\ merge_sources' = Append(merge_sources, other)
    /\ UNCHANGED merge_initial

NextMerge ==
    \E other \in SampleConfigurations :
        Merge(other) /\ UNCHANGED <<timeVars, seqVars, envVars, decodeVars, mapVars>>

SpecMerge == InitMerge /\ [][NextMerge]_vars

\* The leaf fields of the settings model, by group and name
LeafFields ==
    {<<"cluster", "auth_key">>, <<"cluster", "controller_host">>,
     <<"cluster", "request_timeout">>,
     <<"database", "dead_messages_retention">>,
     <<"database", "delivered_messages_retention">>,
     <<"messages_processor", "message_delivery_timeout">>,
     <<"messages_processor", "workers_count">>,
     <<"networking", "client_protocols">>, <<"networking", "restful_port">>,
     <<"retry_policy", "default_interval">>,
     <<"retry_policy", "default_max_attempts">>,
     <<"retry_policy", "max_interval_limit">>,
     <<"retry_policy", "max_attempts_limit">>}

Leaf(c, p) == c[p[1]][p[2]]

IsSet(o) == o.some

\* C1: merge is a per-field fill-gaps-only overlay: after target.merge(source)
\* every leaf field of target is its own value from before the merge if that
\* was set, and otherwise source's value for the field (absent if source's is
\* absent); an empty target merged with a fully populated source ends with
\* every field equal to source's.
C1_FillGapsOnly ==
    merge_sources # <<>> =>
        LET source == merge_sources[Len(merge_sources)]
        IN  /\ \A p \in LeafFields :
                  Leaf(target, p) = IF IsSet(Leaf(merge_before, p))
                                    THEN Leaf(merge_before, p)
                                    ELSE Leaf(source, p)
            /\ ((\A p \in LeafFields : ~IsSet(Leaf(merge_before, p)))
                /\ (\A p \in LeafFields : IsSet(Leaf(source, p))))
                   => target = source

C1_Witness ==
    /\ Len(merge_sources) = 1
    /\ merge_before = Configuration_new
    /\ \A p \in LeafFields : IsSet(Leaf(merge_sources[1], p))
    /\ target = merge_sources[1]

\* The first value set for field p in a list of Configurations, None if none
RECURSIVE FirstSet(_, _)
FirstSet(configurations, p) ==
    IF configurations = <<>> THEN None
    ELSE IF IsSet(Leaf(Head(configurations), p)) THEN Leaf(Head(configurations), p)
    ELSE FirstSet(Tail(configurations), p)

\* C2: after target.merge(s1); ...; target.merge(sn) every leaf field of
\* target is the first value set for it in the order target, s1, ..., sn
\* (absent if none sets it); a field that is set is not changed by a later
\* merge.
C2_FirstValueWins ==
    \A p \in LeafFields :
        /\ Leaf(target, p) = FirstSet(<<merge_initial>> \o merge_sources, p)
        /\ IsSet(Leaf(merge_before, p)) => Leaf(target, p) = Leaf(merge_before, p)

\* the first source left the port unset, the second set it, a third value
\* for it came too late
C2_Witness ==
    /\ Len(merge_sources) = 2
    /\ ~IsSet(merge_initial.networking.restful_port)
    /\ ~IsSet(merge_sources[1].networking.restful_port)
    /\ merge_sources[1].cluster.auth_key = Some(<<"envkey">>)
    /\ merge_sources[2].cluster.auth_key = Some(<<"abcd1234">>)
    /\ target.cluster.auth_key = Some(<<"envkey">>)
    /\ target.networking.restful_port = Some(80)

----------------------------------------------------------------------------
(* SpecEnv: threads requesting the resolved configuration, app_env *)

\* AppContexts, chosen by the --dev flag
context_of(flag) == IF flag THEN "Development" ELSE "Production"

\* The file of a context; the model names the two paths "dev" and "prod"
path_to_conf_file(context) == IF context = "Development" THEN "dev" ELSE "prod"

\* fs::read_to_string and from_map; an unreadable file is an Err
from_properties_file(file) ==
    IF ~file.exists THEN [kind |-> "Err", cause |-> "FailedToReadConfigurationFile"]
    ELSE from_map(properties_file_content_to_map(file.content))

\* A std Once lets a caller run the initializer when none has run to the end
\* and none is running; get_or_init forces through a poisoned Once.
may_run_initializer_unsynchronized(state) == state # "Complete"

may_run_initializer(state) == state \in {"Incomplete", "Poisoned"}

\* configuration.merge(&Configuration::from_map(...ANGLER_CFG...))
resolve_environment_first(file_configuration, env_configuration) ==
    merge(env_configuration, file_configuration)

resolve(file_configuration, env_configuration) ==
    merge(file_configuration, env_configuration)

\* the value the initializer builds
AppEnvironment(context, configuration) ==
    [context |-> context, configuration |-> configuration]

BadValues == [FileValues EXCEPT ![9] = <<"x">>]

DevFileChoices == {Missing, FileWith(TestConfPropertiesFile)}

ProdFileChoices ==
    {Missing,
     FileWith(TestConfPropertiesFile),
     FileWith(FileText((1..3) \cup {9}, FileValues)),
     FileWith(FileText({1, 9}, BadValues))}

AnglerCfgChoices ==
    {NotPresent,
     Present(SemicolonText(AllKeys, EnvValues)),
     Present(SemicolonText(8..13, EnvValues)),
     Present(SemicolonText({9}, BadValues))}

InitEnv ==
    /\ dev_flag \in BOOLEAN
    /\ conf_files \in [dev : DevFileChoices, prod : ProdFileChoices]
    /\ angler_cfg \in AnglerCfgChoices
    /\ once = "Incomplete"
    /\ cell = None
    /\ pc = [t \in Threads |-> "idle"]
    /\ local = [t \in Threads |-> Configuration_new]
    /\ obtained = [t \in Threads |-> <<>>]
    /\ init_runs = 0
    /\ completions = 0
    /\ TimeIdle /\ SeqIdle /\ MergeIdle /\ DecodeIdle /\ MapIdle

\* a thread calls app_env() or AppEnvironment::get()
Call(t) ==
    /\ pc[t] = "idle"
    /\ Len(obtained[t]) < MaxCalls
    /\ pc' = [pc EXCEPT ![t] = "calling"]
    /\ UNCHANGED <<dev_flag, conf_files, angler_cfg, once, cell, local, obtained,
                   init_runs, completions>>

\* get_or_init finds the cell initialized and hands out the reference
ReturnInitialized(t) ==
    /\ pc[t] = "calling"
    /\ once = "Complete"
    /\ obtained' = [obtained EXCEPT ![t] = Append(@, cell.value)]
    /\ pc' = [pc EXCEPT ![t] = "idle"]
    /\ UNCHANGED <<dev_flag, conf_files, angler_cfg, once, cell, local,
                   init_runs, completions>>

\* get_or_init enters the initializer; a caller that finds it running waits
BeginInit(t) ==
    /\ pc[t] = "calling"
    /\ may_run_initializer(once)
    /\ once' = "Running"
    /\ init_runs' = init_runs + 1
    /\ pc' = [pc EXCEPT ![t] = "init_file"]
    /\ UNCHANGED <<dev_flag, conf_files, angler_cfg, cell, local, obtained,
                   completions>>

\* Configuration::from_properties_file(path_to_conf_file).unwrap()
LoadFile(t) ==
    /\ pc[t] = "init_file"
    /\ LET context == context_of(dev_flag)
           loaded == from_properties_file(conf_files[path_to_conf_file(context)])
       IN  IF loaded.kind = "Ok"
           THEN /\ local' = [local EXCEPT ![t] = loaded.value]
                /\ pc' = [pc EXCEPT ![t] = "init_env"]
                /\ UNCHANGED once
           ELSE /\ once' = "Poisoned"
                /\ pc' = [pc EXCEPT ![t] = "panicked"]
                /\ UNCHANGED local
    /\ UNCHANGED <<dev_flag, conf_files, angler_cfg, cell, obtained, init_runs,
                   completions>>

\* the merge with ANGLER_CFG, the construction of the value and its storing
MergeEnvAndStore(t) ==
    /\ pc[t] = "init_env"
    /\ LET from_env ==
               IF angler_cfg.present
               THEN from_map(properties_separate_by_semicolon_to_map(angler_cfg.value))
               ELSE [kind |-> "Ok", value |-> Configuration_new]
           configuration ==
               IF angler_cfg.present THEN resolve(local[t], from_env.value)
               ELSE local[t]
           built == AppEnvironment(context_of(dev_flag), configuration)
       IN  IF from_env.kind = "Ok"
           THEN /\ cell' = Some(built)
                /\ once' = "Complete"
                /\ completions' = completions + 1
                /\ obtained' = [obtained EXCEPT ![t] = Append(@, built)]
                /\ pc' = [pc EXCEPT ![t] = "idle"]
           ELSE /\ once' = "Poisoned"
                /\ pc' = [pc EXCEPT ![t] = "panicked"]
                /\ UNCHANGED <<cell, completions, obtained>>
    /\ UNCHANGED <<dev_flag, conf_files, angler_cfg, local, init_runs>>

NextEnv ==
    \/ \E t \in Threads : Call(t) /\ UNCHANGED notEnvVars
    \/ \E t \in Threads : ReturnInitialized(t) /\ UNCHANGED notEnvVars
    \/ \E t \in Threads : BeginInit(t) /\ UNCHANGED notEnvVars
    \/ \E t \in Threads : LoadFile(t) /\ UNCHANGED notEnvVars
    \/ \E t \in Threads : MergeEnvAndStore(t) /\ UNCHANGED notEnvVars

SpecEnv == InitEnv /\ [][NextEnv]_vars

\* the properties file app_env reads, and what it and ANGLER_CFG decode to
SelectedFile == conf_files[path_to_conf_file(context_of(dev_flag))]
FileDerived == from_map(properties_file_content_to_map(SelectedFile.content)).value
EnvDerived ==
    IF angler_cfg.present
    THEN from_map(properties_separate_by_semicolon_to_map(angler_cfg.value)).value
    ELSE Configuration_new

\* resolved has the value of first wherever first sets one, else second's
FirstThenSecond(resolved, first, second) ==
    \A p \in LeafFields :
        Leaf(resolved, p) = IF IsSet(Leaf(first, p)) THEN Leaf(first, p)
                            ELSE Leaf(second, p)

\* C3: in the resolved configuration the file-derived configuration is the
\* merge target and the ANGLER_CFG-derived one the source: a field whose key
\* the file sets has the file's value, a field the file leaves unset has the
\* environment's value (absent if ANGLER_CFG is absent or does not set it),
\* and without ANGLER_CFG the resolved configuration is the file-derived one.
C3_FileOverEnvironment ==
    IsSet(cell) =>
        /\ FirstThenSecond(cell.value.configuration, FileDerived, EnvDerived)
        /\ ~angler_cfg.present => cell.value.configuration = FileDerived

\* the file sets four keys, ANGLER_CFG all thirteen with other values
C3_Witness ==
    /\ IsSet(cell)
    /\ SelectedFile = FileWith(FileText((1..3) \cup {9}, FileValues))
    /\ angler_cfg = Present(SemicolonText(AllKeys, EnvValues))
    /\ cell.value.configuration.cluster.auth_key = Some(<<"abcd1234">>)
    /\ cell.value.configuration.networking.restful_port = Some(80)
    /\ cell.value.configuration.messages_processor.workers_count = Some(4)

\* C4: the initialization body completes at most once, a thread obtains a
\* reference only after it has completed, every reference obtained, by any
\* thread in any call, is to the one value of the cell, and that value never
\* changes once it is set.
C4_InitializedOnce ==
    /\ [](/\ completions <= 1
          /\ \A t \in Threads : \A i \in 1..Len(obtained[t]) :
                 /\ once = "Complete"
                 /\ IsSet(cell)
                 /\ obtained[t][i] = cell.value)
    /\ [][IsSet(cell) => cell' = cell]_vars

\* both threads raced for the first request and each has called twice
C4_Witness ==
    /\ init_runs = 1
    /\ completions = 1
    /\ \A t \in Threads : Len(obtained[t]) = MaxCalls
    /\ \E t \in Threads : pc[t] = "idle"

----------------------------------------------------------------------------
(* SpecDecode: the two properties decoders applied to the same records *)

RecordAlphabet == {"a", "=", " ", "#"}

SmallRecords == UNION {[1..n -> RecordAlphabet] : n \in 0..MaxRecordLen}

SampleRecords ==
    {<<>>,
     <<"a", "=", "b">>,
     <<"a", "=", "c">>,
     <<" ", "a", " ", "=", " ", "b", " ">>,
     <<"a", "=", "b", "=", "c">>,
     <<"#", "a", "=", "b">>,
     <<" ", "#", " ", "x">>,
     <<"a">>,
     <<"=", "b">>,
     <<"b", "=">>,
     <<"b", "=", "a", " ", "b">>}

RecordLists ==
    {<<r>> : r \in SmallRecords}
    \cup UNION {[1..n -> SampleRecords] : n \in 1..MaxRecords}

InitDecode ==
    /\ record_list \in RecordLists
    /\ file_map = NotDecoded
    /\ semicolon_map = NotDecoded
    /\ TimeIdle /\ SeqIdle /\ MergeIdle /\ EnvIdle /\ MapIdle

\* properties_file_content_to_map on the records, one per line
DecodeFile ==
    /\ file_map = NotDecoded
    /\ file_map' =
           Decoded(properties_file_content_to_map(JoinWith(record_list, <<"\n">>)))
    /\ UNCHANGED <<record_list, semicolon_map>>

\* properties_separate_by_semicolon_to_map on the records, ';' between them
DecodeSemicolon ==
    /\ semicolon_map = NotDecoded
    /\ semicolon_map' =
           Decoded(properties_separate_by_semicolon_to_map(
                       JoinWith(record_list, <<";">>)))
    /\ UNCHANGED <<record_list, file_map>>

NextDecode ==
    \/ DecodeFile /\ UNCHANGED notDecodeVars
    \/ DecodeSemicolon /\ UNCHANGED notDecodeVars

SpecDecode == InitDecode /\ [][NextDecode]_vars

\* the place of the first '=' of a text that has one
FirstEquals(t) ==
    CHOOSE i \in 1..Len(t) : t[i] = "=" /\ \A j \in 1..(i - 1) : t[j] # "="

\* a trimmed record that puts something into the map
Contributes(t) == t # <<>> /\ Head(t) # "#" /\ \E i \in 1..Len(t) : t[i] = "="

KeyOf(t) == SubSeq(t, 1, FirstEquals(t) - 1)
ValueOf(t) == trim(SubSeq(t, FirstEquals(t) + 1, Len(t)))

\* the last of the trimmed records ts that contributes key k
LastWith(ts, k) ==
    CHOOSE i \in 1..Len(ts) :
        /\ Contributes(ts[i]) /\ KeyOf(ts[i]) = k
        /\ \A j \in (i + 1)..Len(ts) : ~(Contributes(ts[j]) /\ KeyOf(ts[j]) = k)

\* the map the records ts, already trimmed, stand for
MapOfTrimmed(ts) ==
    [k \in {KeyOf(ts[i]) : i \in {j \in 1..Len(ts) : Contributes(ts[j])}}
        |-> ValueOf(ts[LastWith(ts, k)])]

ExpectedMap(rs) == MapOfTrimmed([i \in 1..Len(rs) |-> trim(rs[i])])

\* C11: both decoders compute the same function of their records: a record
\* is trimmed; an empty record, one that starts with '#' and one without '='
\* put nothing into the map; any other maps the text before its first '=' to
\* the trimmed text after it ("a=b=c" gives a -> "b=c"); of several records
\* with one key the last decides.  The same records joined by newline or by
\* ';' decode to the same map.
C11_SameFunctionOfRecords ==
    /\ file_map.decoded => file_map.map = ExpectedMap(record_list)
    /\ semicolon_map.decoded => semicolon_map.map = ExpectedMap(record_list)
    /\ (file_map.decoded /\ semicolon_map.decoded) => file_map.map = semicolon_map.map
    /\ (record_list = << <<"a", "=", "b", "=", "c">> >> /\ file_map.decoded)
          => file_map.map = (<<"a">> :> <<"b", "=", "c">>)

\* a comment, a value with '=' in it and a key given twice, decoded both ways
C11_Witness ==
    /\ record_list = << <<"#", "a", "=", "b">>, <<"a", "=", "b", "=", "c">>,
                        <<"a", "=", "c">> >>
    /\ file_map = Decoded(<<"a">> :> <<"c">>)
    /\ semicolon_map = Decoded(<<"a">> :> <<"c">>)

----------------------------------------------------------------------------
(* SpecFromMap: Configuration::from_map applied to a map *)

\* Values a key may come with: numbers in and out of the integer types,
\* signs, blanks, durations, lists and text.
CommonValues ==
    {<<"5", "0", "0">>, <<"0">>, <<"-", "1">>, <<"x">>, <<>>, <<"+", "7">>,
     <<"3", "0", "d">>, <<"[", "5", "m", ",", " ", "1", "h", "]">>,
     <<"6", "5", "5", "3", "6">>, <<"a", ",", " ", "b">>, <<" ", "5">>,
     <<"1", ".", "5">>, <<"5", "x">>, <<"[", "]">>}

\* 2^32: a u32 and a u16 cannot hold it
TwoToThe32 == <<"4", "2", "9", "4", "9", "6", "7", "2", "9", "6">>

\* the keys numbered as in RecognizedKeys, by the rule that decodes them
MillisecondKeys == {3, 6}
DurationKeys == {4, 5, 12}
SequenceKeys == {10}
UnsignedKeys == {7, 9, 11, 13}

ValuesOf(i) ==
    CommonValues
    \cup (IF i \in {9, 11, 13} THEN {TwoToThe32} ELSE {})
    \cup (IF i \in MillisecondKeys THEN {I64MaxPlusOneDigits} ELSE {})
    \cup (IF i \in DurationKeys \cup SequenceKeys THEN {OverflowingWeeks} ELSE {})

\* what properties_file_content_to_map makes of the sample file
FileMap == [i \in AllKeys |-> FileValues[i]]

MapOfIndexed(values) ==
    [k \in {RecognizedKeys[i] : i \in DOMAIN values}
        |-> values[CHOOSE i \in DOMAIN values : RecognizedKeys[i] = k]]

SampleMaps ==
    {EmptyMap, MapOfIndexed(FileMap)}
    \cup UNION {{MapOfIndexed(i :> v) : v \in ValuesOf(i)} : i \in AllKeys}
    \cup UNION {{MapOfIndexed([FileMap EXCEPT ![i] = v]) : v \in ValuesOf(i)} : i \in AllKeys}

UnrecognizedKeys ==
    {<<"future.key">>, <<"cluster.authkey">>, <<"net.client.restful.port", " ">>}

InitFromMap ==
    /\ settings_map \in SampleMaps
    /\ from_map_result = Pending
    /\ map_before = settings_map
    /\ result_before = Pending
    /\ TimeIdle /\ SeqIdle /\ MergeIdle /\ EnvIdle /\ DecodeIdle

\* Configuration::from_map(&settings_map)
FromMap ==
    /\ from_map_result = Pending
    /\ from_map_result' = from_map(settings_map)
    /\ UNCHANGED <<settings_map, map_before, result_before>>

\* a key from_map does not know is put into the map
InsertUnrecognized(key, value) ==
    /\ from_map_result # Pending
    /\ key \notin DOMAIN settings_map
    /\ Cardinality(DOMAIN settings_map \cap UnrecognizedKeys) < MaxUnrecognized
    /\ settings_map' = map_insert(settings_map, key, value)
    /\ map_before' = settings_map
    /\ result_before' = from_map_result
    /\ from_map_result' = Pending

NextFromMap ==
    \/ FromMap /\ UNCHANGED notMapVars
    \/ \E key \in UnrecognizedKeys, value \in {<<"x">>, <<"0">>} :
          InsertUnrecognized(key, value) /\ UNCHANGED notMapVars

SpecFromMap == InitFromMap /\ [][NextFromMap]_vars

\* the leaf field each recognized key decodes into, numbered as the keys
LeafOfKey ==
    <<<<"cluster", "auth_key">>, <<"cluster", "controller_host">>,
      <<"cluster", "request_timeout">>,
      <<"database", "dead_messages_retention">>,
      <<"database", "delivered_messages_retention">>,
      <<"messages_processor", "message_delivery_timeout">>,
      <<"messages_processor", "workers_count">>,
      <<"networking", "client_protocols">>, <<"networking", "restful_port">>,
      <<"retry_policy", "default_interval">>,
      <<"retry_policy", "default_max_attempts">>,
      <<"retry_policy", "max_interval_limit">>,
      <<"retry_policy", "max_attempts_limit">>>>

\* configuration has exactly the fields set whose keys are in map
SetExactlyWherePresent(configuration, map) ==
    \A i \in AllKeys :
        IsSet(Leaf(configuration, LeafOfKey[i])) <=> RecognizedKeys[i] \in DOMAIN map

\* C12: from_map sets a leaf field if and only if the field's key is in the
\* map (a field whose key is absent is None, never a zero or a default), and
\* a map with unrecognized keys added gives the result of the map without
\* them: no failure, no field changed.
C12_OnlyPresentKeys ==
    /\ from_map_result.kind = "Ok"
          => SetExactlyWherePresent(from_map_result.value, settings_map)
    /\ (from_map_result # Pending /\ result_before.kind = "Ok")
          => from_map_result = result_before

\* one recognized key and two unrecognized ones: one field set, like before
C12_Witness ==
    /\ DOMAIN settings_map = {KeyRestfulPort, <<"future.key">>, <<"cluster.authkey">>}
    /\ result_before.kind = "Ok"
    /\ from_map_result.kind = "Ok"
    /\ from_map_result.value.networking.restful_port = Some(500)
    /\ from_map_result.value.cluster.auth_key = None
    /\ from_map_result.value.messages_processor.workers_count = None

\* v is not an integer numeral: an optional sign followed by digits
NonNumeric(v) ==
    \/ v = <<>>
    \/ (Head(v) \in {"+", "-"} /\ Len(v) = 1)
    \/ \E i \in 1..Len(v) :
          ~(v[i] \in {"0", "1", "2", "3", "4", "5", "6", "7", "8", "9"}
            \/ (i = 1 /\ v[i] \in {"+", "-"}))

\* the value v fails the decode rule of key number i
FailsRule(i, v) ==
    \/ i \in UnsignedKeys \cup MillisecondKeys /\ NonNumeric(v)
    \/ i \in DurationKeys /\ to_duration(v) = InvalidSyntax
    \/ i \in SequenceKeys /\ to_duration_sequence(v) = InvalidSyntax

\* the keys of map whose values fail their rules, by number
FailingKeys(map) ==
    {i \in AllKeys : /\ RecognizedKeys[i] \in DOMAIN map
                     /\ FailsRule(i, map[RecognizedKeys[i]])}

\* result is the panic of the expect of one of the keys numbered in failing
PanicOfOneOf(result, failing) ==
    /\ result.kind = "Panic"
    /\ \E i \in failing :
          /\ result.key = RecognizedKeys[i]
          /\ result.error = IF i \in UnsignedKeys \cup MillisecondKeys
                            THEN "ParseIntError" ELSE "InvalidSyntax"

AtLeast(o, low) == IsSet(o) => o.value >= low

\* a Duration field that is unset or not negative
NotNegative(o) == IsSet(o) => (o.value.seconds >= 0 /\ o.value.subsec_millis >= 0)

\* C14: from_map enforces the range each rule declares: "0" is rejected for
\* msgproc.workers, net.client.restful.port and retryPolicy.limit.maxAttempts,
\* a negative value for cluster.requestTimeout,
\* msgproc.message_delivery_timeout and retryPolicy.defaults.maxAttempts, and
\* no field of a returned Configuration holds a value outside its range.
C14_RangesEnforced ==
    from_map_result.kind = "Ok" =>
        /\ AtLeast(from_map_result.value.messages_processor.workers_count, 1)
        /\ AtLeast(from_map_result.value.networking.restful_port, 1)
        /\ AtLeast(from_map_result.value.retry_policy.max_attempts_limit, 1)
        /\ AtLeast(from_map_result.value.retry_policy.default_max_attempts, 0)
        /\ NotNegative(from_map_result.value.cluster.request_timeout)
        /\ NotNegative(from_map_result.value.messages_processor.message_delivery_timeout)

----------------------------------------------------------------------------
(* Failure of the initialization, under SpecEnv *)

\* C15: a failed initialization (unreadable file, or a present key that
\* fails its rule) is final: once a request has failed, the initialization
\* body has run that one time only, however many requests follow from any
\* thread, and nobody has or gets a resolved configuration.
C15_NotRetried ==
    (\E t \in Threads : pc[t] = "panicked") =>
        /\ init_runs = 1
        /\ ~IsSet(cell)
        /\ \A t \in Threads : obtained[t] = <<>>

----------------------------------------------------------------------------
(* Brackets and overflow, under SpecTime *)

\* a bracket-delimited text with a further bracket between the outer two
HasInnerBracket(s) ==
    BracketDelimited(s) /\ \E i \in 2..(Len(s) - 1) : s[i] \in {"[", "]"}

\* C16: of a bracket-delimited input exactly one leading '[' and one
\* trailing ']' are stripped; a further bracket stays in the first or last
\* token, which then is no Duration, so "[[5m]]", "[[5m, 1h]" and
\* "[5m, 1h]]" fail with InvalidSyntax.
C16_OneBracketStripped ==
    (seq_result # Pending /\ HasInnerBracket(input)) => seq_result = InvalidSyntax

\* the greatest count of a unit whose length in seconds is inside i64
MaxCountDigits(u) ==
    CASE u = "s" -> I64MaxDigits [] u = "m" -> MaxMinutesDigits
      [] u = "h" -> MaxHoursDigits [] u = "d" -> MaxDaysDigits
      [] u = "w" -> MaxWeeksDigits

\* a text of the grammar whose count fits an i64 and whose length does not
LengthOutOfRange(s) ==
    /\ MatchesDurationGrammar(s)
    /\ DigitsLeq(CountOf(s), I64MaxDigits)
    /\ ~DigitsLeq(CountOf(s), MaxCountDigits(s[Len(s)]))

\* C17: to_duration ends in a Duration or in InvalidSyntax for every input;
\* for a text of the grammar whose count fits an i64 while count times unit
\* length does not, it ends in InvalidSyntax, not in a panic or a wrapped
\* value.
C17_DurationOrInvalidSyntax ==
    dur_result # Pending =>
        /\ dur_result.kind \in {"Ok", "InvalidSyntax"}
        /\ LengthOutOfRange(input) => dur_result = InvalidSyntax

====
